---- MODULE Spec2Model ----
(***************************************************************************)
(* Model of scripts/nox-gitleaks-import.py: parse_gitleaks, the regular-   *)
(* expression based extractor of Gitleaks rules, and the emission loop of  *)
(* main that numbers the rules it prints.                                  *)
(*                                                                         *)
(* A text is a sequence of one-character strings.  Every re.search of the  *)
(* source is an operator that scans the text position by position, the way *)
(* the regular expression engine does (leftmost match, greedy or lazy      *)
(* quantifiers as written in the pattern).  A captured group is joined     *)
(* back into a string, so records hold strings as the Python dicts do.     *)
(***************************************************************************)
EXTENDS Integers, Sequences, FiniteSets, TLC

VARIABLES content, pc, parts, k, rules, sec_num, r, printed

vars == <<content, pc, parts, k, rules, sec_num, r, printed>>

(***************************************************************************)
(* Characters and literals of the patterns                                 *)
(***************************************************************************)
DQ == "\""
SQ == "'"
NL == "\n"

\* \s of the patterns and the characters str.strip() removes
WS == {" ", NL, "\t"}

\* \d of the entropy pattern
DigitChars == <<"0", "1", "2", "3", "4", "5", "6", "7", "8", "9">>

Digits == {DigitChars[n] : n \in 1..Len(DigitChars)}

DigitVal(c) == (CHOOSE n \in 1..Len(DigitChars) : DigitChars[n] = c) - 1

Delimiter == <<"[", "[", "r", "u", "l", "e", "s", "]", "]">>

KeyId == <<"i", "d">>
KeyDescription == <<"d", "e", "s", "c", "r", "i", "p", "t", "i", "o", "n">>
KeyRegex == <<"r", "e", "g", "e", "x">>
KeyKeywords == <<"k", "e", "y", "w", "o", "r", "d", "s">>
KeyEntropy == <<"e", "n", "t", "r", "o", "p", "y">>

TripleSingle == <<SQ, SQ, SQ>>
TripleDouble == <<DQ, DQ, DQ>>

(***************************************************************************)
(* String helpers                                                          *)
(***************************************************************************)
RECURSIVE Join(_)
Join(s) == IF s = <<>> THEN "" ELSE Head(s) \o Join(Tail(s))

RECURSIVE Flatten(_)
Flatten(ss) == IF ss = <<>> THEN <<>> ELSE Head(ss) \o Flatten(Tail(ss))

Least(S) == CHOOSE p \in S : \A q \in S : p <= q

\* the literal lit stands in s at position p
HasAt(s, p, lit) ==
    /\ p >= 1
    /\ p + Len(lit) - 1 <= Len(s)
    /\ \A n \in 1..Len(lit) : s[p + n - 1] = lit[n]

\* greedy run of characters of a class from position p: the position of
\* the first character outside the class, Len(s) + 1 when there is none
RunIn(s, p, class) ==
    Least({q \in p..(Len(s) + 1) : q = Len(s) + 1 \/ s[q] \notin class})

\* the same for a negated class: the first character inside stop
RunNotIn(s, p, stop) ==
    Least({q \in p..(Len(s) + 1) : q = Len(s) + 1 \/ s[q] \in stop})

\* greedy \s* from position p: the position of the first non-space
SkipWs(s, p) == RunIn(s, p, WS)

\* content.split(sep): the pieces between the non-overlapping occurrences
\* of sep, found left to right
RECURSIVE SplitFrom(_, _, _)
SplitFrom(s, sep, start) ==
    LET found == {p \in start..Len(s) : HasAt(s, p, sep)}
    IN IF found = {} THEN <<SubSeq(s, start, Len(s))>>
       ELSE <<SubSeq(s, start, Least(found) - 1)>>
            \o SplitFrom(s, sep, Least(found) + Len(sep))

Split(s, sep) == SplitFrom(s, sep, 1)

\* block.strip(): falsy exactly when every character is white space
StripIsEmpty(s) == \A n \in 1..Len(s) : s[n] \in WS

(***************************************************************************)
(* Match objects: re.search returns None or a match with group(1)          *)
(***************************************************************************)
None == [matched |-> FALSE, group1 |-> <<>>]

Match(g) == [matched |-> TRUE, group1 |-> g]

\* KEY\s*=\s* matched at p: the position after it, 0 when it does not match
AfterKeyEq(s, p, key) ==
    IF ~HasAt(s, p, key) THEN 0
    ELSE LET q == SkipWs(s, p + Len(key))
         IN IF q <= Len(s) /\ s[q] = "=" THEN SkipWs(s, q + 1) ELSE 0

\* "([^"]+)" matched at q: [^"]+ is greedy and stops at the next quote
QuotedAt(s, q) ==
    IF q >= 1 /\ q <= Len(s) /\ s[q] = DQ
    THEN LET e == RunNotIn(s, q + 1, {DQ})
         IN IF e > q + 1 /\ e <= Len(s) THEN Match(SubSeq(s, q + 1, e - 1))
            ELSE None
    ELSE None

\* (.+) where the pattern has (.+?): the capture runs to the last closing
\* quote that no newline comes before
GreedyEnd(s, start, close) ==
    LET ends == {e \in (start + 1)..Len(s) :
                    /\ HasAt(s, e, close)
                    /\ \A n \in start..(e - 1) : s[n] # NL}
    IN IF ends = {} THEN 0 ELSE CHOOSE e \in ends : \A f \in ends : f <= e

\* QQQ(.+?)QQQ matched at q: .+? is lazy and takes at least one character,
\* so the capture ends at the first position e > start where QQQ stands;
\* the dot matches no newline, so no newline may come before e
LazyEnd(s, start, close) ==
    LET ends == {e \in (start + 1)..Len(s) : HasAt(s, e, close)}
    IN IF ends = {} THEN 0
       ELSE IF \E n \in start..(Least(ends) - 1) : s[n] = NL THEN 0
       ELSE Least(ends)

TripleAt(s, q, quote) ==
    IF q >= 1 /\ HasAt(s, q, quote)
    THEN LET start == q + Len(quote)
             e == LazyEnd(s, start, quote)
         IN IF e > 0 THEN Match(SubSeq(s, start, e - 1)) ELSE None
    ELSE None

\* \[([^\]]+)\] matched at q
BracketAt(s, q) ==
    IF q >= 1 /\ q <= Len(s) /\ s[q] = "["
    THEN LET e == RunNotIn(s, q + 1, {"]"})
         IN IF e > q + 1 /\ e <= Len(s) THEN Match(SubSeq(s, q + 1, e - 1))
            ELSE None
    ELSE None

\* ([\d.]+) matched at q
NumberAt(s, q) ==
    IF q >= 1
    THEN LET e == RunIn(s, q, Digits \cup {"."})
         IN IF e > q THEN Match(SubSeq(s, q, e - 1)) ELSE None
    ELSE None

(***************************************************************************)
(* The re.search calls of parse_gitleaks: the leftmost position at which   *)
(* the whole pattern matches decides the match                             *)
(***************************************************************************)
\* re.search(r'id\s*=\s*"([^"]+)"', block)
IdSearch(block) ==
    LET hits == {p \in 1..Len(block) :
                    QuotedAt(block, AfterKeyEq(block, p, KeyId)).matched}
    IN IF hits = {} THEN None
       ELSE QuotedAt(block, AfterKeyEq(block, Least(hits), KeyId))

\* re.search(r'description\s*=\s*"([^"]+)"', block)
DescSearch(block) ==
    LET hits == {p \in 1..Len(block) :
                    QuotedAt(block, AfterKeyEq(block, p, KeyDescription)).matched}
    IN IF hits = {} THEN None
       ELSE QuotedAt(block, AfterKeyEq(block, Least(hits), KeyDescription))

\* re.search(r"regex\s*=\s*'''(.+?)'''", block)
RegexTripleSingleSearch(block) ==
    LET hits == {p \in 1..Len(block) :
                    TripleAt(block, AfterKeyEq(block, p, KeyRegex), TripleSingle).matched}
    IN IF hits = {} THEN None
       ELSE TripleAt(block, AfterKeyEq(block, Least(hits), KeyRegex), TripleSingle)

\* re.search(r'regex\s*=\s*"""(.+?)"""', block)
RegexTripleDoubleSearch(block) ==
    LET hits == {p \in 1..Len(block) :
                    TripleAt(block, AfterKeyEq(block, p, KeyRegex), TripleDouble).matched}
    IN IF hits = {} THEN None
       ELSE TripleAt(block, AfterKeyEq(block, Least(hits), KeyRegex), TripleDouble)

\* re.search(r'regex\s*=\s*"([^"]+)"', block)
RegexPlainSearch(block) ==
    LET hits == {p \in 1..Len(block) :
                    QuotedAt(block, AfterKeyEq(block, p, KeyRegex)).matched}
    IN IF hits = {} THEN None
       ELSE QuotedAt(block, AfterKeyEq(block, Least(hits), KeyRegex))

\* the fallback chain of lines 29-34
RegexSearch(block) ==
    LET a == RegexTripleSingleSearch(block)
    IN IF a.matched THEN a
       ELSE LET b == RegexTripleDoubleSearch(block)
            IN IF b.matched THEN b ELSE RegexPlainSearch(block)

\* re.search(r"keywords\s*=\s*\[([^\]]+)\]", block)
KeywordsSearch(block) ==
    LET hits == {p \in 1..Len(block) :
                    BracketAt(block, AfterKeyEq(block, p, KeyKeywords)).matched}
    IN IF hits = {} THEN None
       ELSE BracketAt(block, AfterKeyEq(block, Least(hits), KeyKeywords))

\* re.findall(r'"([^"]+)"', s): the non-overlapping matches, left to right
RECURSIVE FindAllFrom(_, _)
FindAllFrom(s, p) ==
    LET hits == {q \in p..Len(s) : QuotedAt(s, q).matched}
    IN IF hits = {} THEN <<>>
       ELSE LET m == QuotedAt(s, Least(hits))
            IN <<Join(m.group1)>>
               \o FindAllFrom(s, Least(hits) + Len(m.group1) + 2)

FindAllQuoted(s) == FindAllFrom(s, 1)

\* re.search(r"entropy\s*=\s*([\d.]+)", block)
EntropySearch(block) ==
    LET hits == {p \in 1..Len(block) :
                    NumberAt(block, AfterKeyEq(block, p, KeyEntropy)).matched}
    IN IF hits = {} THEN None
       ELSE NumberAt(block, AfterKeyEq(block, Least(hits), KeyEntropy))

(***************************************************************************)
(* float(): a decimal numeral is kept exactly, as mant / 10^frac with no   *)
(* trailing zero in the fraction, so that 6.0 and 6 are the same value     *)
(***************************************************************************)
RECURSIVE Pow10(_)
Pow10(n) == IF n = 0 THEN 1 ELSE 10 * Pow10(n - 1)

RECURSIVE DigitsValue(_)
DigitsValue(ds) ==
    IF ds = <<>> THEN 0
    ELSE 10 * DigitsValue(SubSeq(ds, 1, Len(ds) - 1)) + DigitVal(ds[Len(ds)])

RECURSIVE DropTrailingZeros(_)
DropTrailingZeros(ds) ==
    IF ds # <<>> /\ ds[Len(ds)] = "0"
    THEN DropTrailingZeros(SubSeq(ds, 1, Len(ds) - 1))
    ELSE ds

\* float(s) raises ValueError on a string over [0-9.] unless it holds a
\* digit and at most one point
FloatRaises(s) ==
    \/ Cardinality({n \in 1..Len(s) : s[n] = "."}) > 1
    \/ \A n \in 1..Len(s) : s[n] = "."

Float(s) ==
    LET dot == RunNotIn(s, 1, {"."})
        whole == SubSeq(s, 1, dot - 1)
        fraction == DropTrailingZeros(SubSeq(s, dot + 1, Len(s)))
    IN [mant |-> DigitsValue(whole \o fraction), frac |-> Len(fraction)]

\* the literal 0.0 of line 43 and the literal 4.5 of line 130
Zero == [mant |-> 0, frac |-> 0]

FourPointFive == [mant |-> 45, frac |-> 1]

Greater(a, b) == a.mant * Pow10(b.frac) > b.mant * Pow10(a.frac)

(***************************************************************************)
(* One iteration of the loop of parse_gitleaks over a block                *)
(***************************************************************************)
\* the test of line 48 left out: every block with an id is appended
KeepsEveryRule(regex_pattern) == TRUE

\* lines 48-57: the record is appended only when the pattern is non-empty
KeepsRule(regex_pattern) == regex_pattern # ""

BlockOutcome(block) ==
    IF StripIsEmpty(block) THEN [kind |-> "continue"]
    ELSE LET id_match == IdSearch(block)
         IN IF ~id_match.matched THEN [kind |-> "continue"]
            ELSE LET desc_match == DescSearch(block)
                     regex_match == RegexSearch(block)
                     kw_match == KeywordsSearch(block)
                     ent_match == EntropySearch(block)
                     regex_pattern ==
                         IF regex_match.matched THEN Join(regex_match.group1) ELSE ""
                 IN IF ent_match.matched /\ FloatRaises(ent_match.group1)
                    THEN [kind |-> "ValueError"]
                    ELSE IF KeepsRule(regex_pattern)
                    THEN [kind |-> "append",
                          rule |-> [id |-> Join(id_match.group1),
                                    description |->
                                        IF desc_match.matched
                                        THEN Join(desc_match.group1) ELSE "",
                                    regex |-> regex_pattern,
                                    keywords |->
                                        IF kw_match.matched
                                        THEN FindAllQuoted(kw_match.group1)
                                        ELSE <<>>,
                                    entropy |->
                                        IF ent_match.matched
                                        THEN Float(ent_match.group1) ELSE Zero]]
                    ELSE [kind |-> "none"]

(***************************************************************************)
(* main: the identifiers left out, the number format, one emission         *)
(***************************************************************************)
EXISTING_RULES ==
    {"1password-secret-key", "1password-service-account-token",
     "adafruit-api-key", "adobe-client-id", "adobe-client-secret",
     "age-secret-key", "airtable-api-key", "alibaba-access-key-id",
     "alibaba-secret-key", "anthropic-api-key", "artifactory-api-key",
     "asana-client-id", "asana-client-secret", "atlassian-api-token",
     "aws-access-token", "azure-ad-client-secret", "bitbucket-client-id",
     "cloudflare-api-key", "codecov-access-token", "cohere-api-token",
     "confluent-access-token", "databricks-api-token",
     "datadog-access-token", "digitalocean-access-token",
     "discord-api-token", "discord-client-id", "dropbox-api-token",
     "fastly-api-token", "gcp-api-key", "generic-api-key", "github-token",
     "gitlab-token", "slack-token", "stripe-api-key", "twilio-api-key"}

\* the start value of sec_num
SecStart == 163

\* f"SEC-{sec_num:03d}": at least three digits, padded with zeros
RuleId(n) ==
    "SEC-" \o (IF n < 10 THEN "00" ELSE IF n < 100 THEN "0" ELSE "") \o ToString(n)

Severity(rule) ==
    IF Greater(rule.entropy, FourPointFive)
    THEN "findings.SeverityMedium" ELSE "findings.SeverityHigh"

\* sec_num += 1 placed before the test of line 122: a skipped record takes
\* a number too
EmitOutcomeCountsSkipped(rule, n) ==
    IF rule.id \in EXISTING_RULES
    THEN [sec_num |-> n + 1, lines |-> <<>>]
    ELSE [sec_num |-> n + 1,
          lines |-> <<[rule_id |-> RuleId(n + 1),
                       from |-> rule.id,
                       severity |-> Severity(rule)]>>]

\* one iteration of the loop of main over a record r, the counter being n:
\* the counter after it and the rule comment it prints, if any
EmitOutcome(rule, n) ==
    IF rule.id \in EXISTING_RULES
    THEN [sec_num |-> n, lines |-> <<>>]
    ELSE [sec_num |-> n + 1,
          lines |-> <<[rule_id |-> RuleId(n + 1),
                       from |-> rule.id,
                       severity |-> Severity(rule)]>>]

(***************************************************************************)
(* The program: main reads content, parse_gitleaks splits it and loops     *)
(* over the blocks, then main loops over the records                       *)
(***************************************************************************)
Unbound == "unbound"

\* lines 9-12: rules = [], parts = content.split("[[rules]]"); the loop
\* starts at parts[1:]
FirstBlock == 2

Split_ ==
    /\ pc = "parse"
    /\ parts' = Split(content, Delimiter)
    /\ rules' = <<>>
    /\ k' = FirstBlock
    /\ pc' = "blocks"
    /\ UNCHANGED <<content, sec_num, r, printed>>

\* lines 14-57: one iteration; float() may raise, and nothing catches it
ProcessBlock ==
    /\ pc = "blocks"
    /\ k <= Len(parts)
    /\ LET o == BlockOutcome(parts[k])
       IN /\ pc' = IF o.kind = "ValueError" THEN "raised" ELSE "blocks"
          /\ rules' = IF o.kind = "append" THEN Append(rules, o.rule) ELSE rules
          /\ k' = IF o.kind = "ValueError" THEN k ELSE k + 1
    /\ UNCHANGED <<content, parts, sec_num, r, printed>>

\* line 59 and lines 105-119: the list is returned and main sets sec_num
Return ==
    /\ pc = "blocks"
    /\ k > Len(parts)
    /\ pc' = "emit"
    /\ sec_num' = SecStart
    /\ r' = 1
    /\ UNCHANGED <<content, parts, k, rules, printed>>

\* lines 121-149: one iteration of the loop over the records
EmitRule ==
    /\ pc = "emit"
    /\ r <= Len(rules)
    /\ LET o == EmitOutcome(rules[r], sec_num)
       IN /\ sec_num' = o.sec_num
          /\ printed' = printed \o o.lines
    /\ r' = r + 1
    /\ UNCHANGED <<content, parts, k, rules, pc>>

Finish ==
    /\ pc = "emit"
    /\ r > Len(rules)
    /\ pc' = "done"
    /\ UNCHANGED <<content, parts, k, rules, sec_num, r, printed>>

Next == Split_ \/ ProcessBlock \/ Return \/ EmitRule \/ Finish

\* the whole of parse_gitleaks on a text, as a function: the records, or
\* the exception that ends it
RECURSIVE ParseFrom(_, _, _)
ParseFrom(ps, n, acc) ==
    IF n > Len(ps) THEN [raised |-> FALSE, rules |-> acc]
    ELSE LET o == BlockOutcome(ps[n])
         IN IF o.kind = "ValueError" THEN [raised |-> TRUE, rules |-> <<>>]
            ELSE ParseFrom(ps, n + 1,
                           IF o.kind = "append" THEN Append(acc, o.rule) ELSE acc)

Parse(text) == ParseFrom(Split(text, Delimiter), FirstBlock, <<>>)

(***************************************************************************)
(* Input texts                                                             *)
(***************************************************************************)
Quoted(v) == <<DQ>> \o v \o <<DQ>>

TripleSingleQuoted(v) == TripleSingle \o v \o TripleSingle

TripleDoubleQuoted(v) == TripleDouble \o v \o TripleDouble

\* a line "key = value"
Assign(key, v) == key \o <<" ", "=", " ">> \o v \o <<NL>>

\* the texts made of at most n pieces of a pool
Texts(pool, n) ==
    {Flatten(ps) : ps \in UNION {[1..m -> pool] : m \in 0..n}}

StartState(text) ==
    /\ content = text
    /\ pc = "parse"
    /\ parts = Unbound
    /\ k = Unbound
    /\ rules = Unbound
    /\ sec_num = Unbound
    /\ r = Unbound
    /\ printed = <<>>

(***************************************************************************)
(* Spec: texts of whole blocks.  A chunk is a delimiter with the lines of  *)
(* one block, or lines with no delimiter (a header when they come first,   *)
(* more lines of the block before them otherwise)                          *)
(***************************************************************************)
MaxBlocks == 3

BlockA ==
    Delimiter \o <<NL>> \o Assign(KeyId, Quoted(<<"a">>))
    \o Assign(KeyRegex, TripleSingleQuoted(<<"x">>))

BlockSlack ==
    Delimiter \o <<NL>>
    \o Assign(KeyId, Quoted(<<"s", "l", "a", "c", "k", "-", "t", "o", "k", "e", "n">>))
    \o Assign(KeyRegex, Quoted(<<"y">>))

BlockB ==
    Delimiter \o <<NL>> \o Assign(KeyId, Quoted(<<"b">>))
    \o Assign(KeyRegex, TripleDoubleQuoted(<<"z">>))
    \o Assign(KeyEntropy, <<"6", ".", "0">>)

BlockBadEntropy ==
    Delimiter \o <<NL>> \o Assign(KeyId, Quoted(<<"c">>))
    \o Assign(KeyEntropy, <<"1", ".", "2", ".", "3">>)

BlockBlank == Delimiter \o <<" ", NL>>

BlockUuid ==
    Delimiter \o <<NL>> \o Assign(<<"u", "u">> \o KeyId, Quoted(<<"d">>))
    \o Assign(KeyRegex, Quoted(<<"w">>))

BlockNoRegex == Delimiter \o <<NL>> \o Assign(KeyId, Quoted(<<"e">>))

BlockNoId == Delimiter \o <<NL>> \o Assign(KeyRegex, Quoted(<<"v">>))

LinesNoDelimiter ==
    Assign(KeyId, Quoted(<<"h">>)) \o Assign(KeyRegex, Quoted(<<"r">>))

Chunks ==
    {BlockA, BlockSlack, BlockB, BlockBadEntropy, BlockBlank, BlockUuid,
     BlockNoRegex, BlockNoId, LinesNoDelimiter}

Init == \E text \in Texts(Chunks, MaxBlocks) : StartState(text)

Spec == Init /\ [][Next]_vars

(***************************************************************************)
(* SpecRegex: one block, an id line and one or two regex assignments; the  *)
(* first is written with any run of quotes on either side of its body      *)
(***************************************************************************)
MaxQuoteRun == 3

QuoteRun(c, n) == [m \in 1..n |-> c]

QuoteRuns == {QuoteRun(c, n) : c \in {SQ, DQ}, n \in 0..MaxQuoteRun}

FooQuoteBar == <<"f", "o", "o", DQ, "b", "a", "r">>

RegexBodies ==
    {<<>>, <<"x">>, FooQuoteBar, <<"x", NL, "y">>, <<"x">> \o TripleSingle \o <<"y">>}

FirstAssignments ==
    {Assign(KeyRegex, open \o body \o close) :
        open \in QuoteRuns, body \in RegexBodies, close \in QuoteRuns}

SecondAssignments ==
    {<<>>,
     Assign(KeyRegex, Quoted(<<"q">>)),
     Assign(KeyRegex, TripleSingleQuoted(<<"r">>)),
     Assign(KeyRegex, TripleDoubleQuoted(<<"t">>))}

IdLines == {<<>>, Assign(KeyId, Quoted(<<"a">>)), Assign(KeyId, Quoted(<<>>))}

InitRegex ==
    \E idl \in IdLines, first \in FirstAssignments, second \in SecondAssignments :
        StartState(Delimiter \o <<NL>> \o idl \o first \o second)

SpecRegex == InitRegex /\ [][Next]_vars

(***************************************************************************)
(* What the patterns denote, stated without the scanning: the spans        *)
(* <<p, start, end>> of a block b such that KEY stands at p, then white    *)
(* space, "=", white space, the opening quote, and b[start..end-1] is a    *)
(* non-empty text free of the banned characters that the closing quote     *)
(* follows at end                                                          *)
(***************************************************************************)
GapOk(b, from, to) ==
    \E a \in from..(to - 1) :
        /\ b[a] = "="
        /\ \A t \in from..(to - 1) : t # a => b[t] \in WS

Spans(b, key, open, close, banned) ==
    UNION {UNION {{<<p, o + Len(open), e>> :
                      e \in {e \in (o + Len(open) + 1)..Len(b) :
                                /\ HasAt(b, e, close)
                                /\ \A t \in (o + Len(open))..(e - 1) :
                                       b[t] \notin banned}} :
                  o \in {o \in (p + Len(key) + 1)..Len(b) :
                            GapOk(b, p + Len(key), o) /\ HasAt(b, o, open)}} :
           p \in {p \in 1..Len(b) : HasAt(b, p, key)}}

TripleSingleSpans(b) == Spans(b, KeyRegex, TripleSingle, TripleSingle, {NL})

TripleDoubleSpans(b) == Spans(b, KeyRegex, TripleDouble, TripleDouble, {NL})

PlainSpans(b) == Spans(b, KeyRegex, <<DQ>>, <<DQ>>, {DQ})

\* the span that starts first and, among those, ends first
FirstShortest(S) ==
    CHOOSE s \in S : \A t \in S : s[1] < t[1] \/ (s[1] = t[1] /\ s[3] <= t[3])

Capture(b, s) == Join(SubSeq(b, s[2], s[3] - 1))

NoRegexForm(b) ==
    TripleSingleSpans(b) = {} /\ TripleDoubleSpans(b) = {} /\ PlainSpans(b) = {}

\* the capture of the form of highest priority that has a span
PriorityCapture(b) ==
    IF TripleSingleSpans(b) # {}
    THEN Capture(b, FirstShortest(TripleSingleSpans(b)))
    ELSE IF TripleDoubleSpans(b) # {}
    THEN Capture(b, FirstShortest(TripleDoubleSpans(b)))
    ELSE Capture(b, FirstShortest(PlainSpans(b)))

Returned == pc \in {"emit", "done"}

\* the chunk stands in text b at some position
Holds(b, chunk) == \E p \in 1..Len(b) : HasAt(b, p, chunk)

(***************************************************************************)
(* C2: every record of the list has a non-empty id and a non-empty         *)
(* pattern, and a block in which none of the three regex forms has a span  *)
(* gives no record (checked on the one-block texts of SpecRegex)           *)
(***************************************************************************)
C2_RecordsHaveIdAndPattern ==
    rules # Unbound =>
        /\ \A n \in 1..Len(rules) : rules[n].id # "" /\ rules[n].regex # ""
        /\ (Returned /\ NoRegexForm(parts[FirstBlock])) => rules = <<>>

\* a block with an id and no regex form has been dropped
C2_Witness ==
    /\ pc = "done"
    /\ Holds(parts[FirstBlock], Assign(KeyId, Quoted(<<"a">>)))
    /\ Holds(parts[FirstBlock], KeyRegex)
    /\ NoRegexForm(parts[FirstBlock])
    /\ rules = <<>>

(***************************************************************************)
(* C8: the pattern of a record is the capture of the triple-single form    *)
(* if it has a span in the block, else of the triple-double form, else of  *)
(* the plain form; the span is the one that starts first and ends first.   *)
(* So '''foo"bar''' gives foo"bar, and of two plain assignments the first  *)
(* gives the pattern                                                       *)
(***************************************************************************)
C8_PatternIsFirstShortestCapture ==
    Returned =>
        LET b == parts[FirstBlock]
        IN /\ Len(rules) <= 1
           /\ \A n \in 1..Len(rules) : rules[n].regex = PriorityCapture(b)
           /\ (Holds(b, Assign(KeyId, Quoted(<<"a">>))) /\ ~NoRegexForm(b))
                  => Len(rules) = 1
           /\ (/\ Holds(b, Assign(KeyId, Quoted(<<"a">>)))
               /\ Holds(b, Assign(KeyRegex, TripleSingleQuoted(FooQuoteBar))))
                  => rules[1].regex = "foo\"bar"
           /\ (/\ Holds(b, Assign(KeyId, Quoted(<<"a">>)))
               /\ Holds(b, Assign(KeyRegex, Quoted(<<"x">>))
                           \o Assign(KeyRegex, Quoted(<<"q">>))))
                  => rules[1].regex = "x"

\* a triple-single pattern with a double quote in it, before a plain one
C8_Witness ==
    /\ pc = "done"
    /\ Holds(parts[FirstBlock],
             Assign(KeyRegex, TripleSingleQuoted(FooQuoteBar))
             \o Assign(KeyRegex, Quoted(<<"q">>)))
    /\ Len(rules) = 1
    /\ rules[1].regex = "foo\"bar"

(***************************************************************************)
(* C1: parse_gitleaks raises no exception, whatever the text, so the       *)
(* program never stands at an uncaught ValueError                          *)
(***************************************************************************)
C1_NeverRaises == pc # "raised"

\* a key is a run of these characters, so "id" after one of them is the
\* end of a longer key and not a key named id
BareKeyChars ==
    {"a", "b", "c", "d", "e", "f", "g", "h", "i", "j", "k", "l", "m", "n",
     "o", "p", "q", "r", "s", "t", "u", "v", "w", "x", "y", "z", "-", "_"}
    \cup Digits

\* "id" stands somewhere in b and is not the end of a longer key
HasKeyNamedId(b) ==
    \E p \in 1..Len(b) :
        /\ HasAt(b, p, KeyId)
        /\ p > 1 => b[p - 1] \notin BareKeyChars

(***************************************************************************)
(* C3: the iteration over a block that has no key named id appends no      *)
(* record, whatever else the block holds                                   *)
(***************************************************************************)
C3_NoIdKeyNoRecord ==
    [][(pc = "blocks" /\ k <= Len(parts) /\ ~HasKeyNamedId(parts[k]))
          => rules' = rules]_vars

\* the list parse_gitleaks returns for one segment standing alone after a
\* delimiter
Alone(segment) == Parse(Delimiter \o segment).rules

RECURSIVE ConcatAlone(_, _)
ConcatAlone(ps, n) ==
    IF n > Len(ps) THEN <<>> ELSE Alone(ps[n]) \o ConcatAlone(ps, n + 1)

Terminated == pc \in {"raised", "emit", "done"}

(***************************************************************************)
(* C5: the list parse_gitleaks returns is the concatenation, in order, of  *)
(* what each segment after a delimiter gives alone, zero or one record     *)
(* each; the text before the first delimiter gives nothing and a text with *)
(* no delimiter the empty list; and a segment that gives a record alone    *)
(* has it returned whatever the other segments are, so parse_gitleaks does *)
(* not end without returning when there is such a segment                  *)
(***************************************************************************)
C5_OutputIsConcatenation ==
    /\ Returned =>
           /\ rules = ConcatAlone(parts, FirstBlock)
           /\ \A n \in FirstBlock..Len(parts) : Len(Alone(parts[n])) <= 1
           /\ Len(parts) = 1 => rules = <<>>
    /\ Terminated =>
           \A n \in FirstBlock..Len(parts) : Alone(parts[n]) # <<>> => Returned

\* the ids of the records main has gone through that are not in
\* EXISTING_RULES, in order
RECURSIVE NewIds(_, _)
NewIds(rs, n) ==
    IF n = 0 THEN <<>>
    ELSE NewIds(rs, n - 1)
         \o (IF rs[n].id \in EXISTING_RULES THEN <<>> ELSE <<rs[n].id>>)

(***************************************************************************)
(* C10: in the loop of main, the counter is 163 plus the number of         *)
(* emitted records, the k-th emitted record is numbered SEC-(163+k), and   *)
(* the emitted records are, in order, the records gone through whose id    *)
(* is not in EXISTING_RULES                                                *)
(***************************************************************************)
C10_EmittedNumbersAreConsecutive ==
    Returned =>
        /\ sec_num = 163 + Len(printed)
        /\ \A n \in 1..Len(printed) :
               /\ printed[n].rule_id = "SEC-" \o ToString(163 + n)
               /\ printed[n].from \notin EXISTING_RULES
               /\ printed[n].from # "slack-token"
        /\ [n \in 1..Len(printed) |-> printed[n].from] = NewIds(rules, r - 1)

\* a record of EXISTING_RULES between two emitted ones
C10_Witness ==
    /\ pc = "done"
    /\ Len(rules) = 3
    /\ rules[2].id = "slack-token"
    /\ Len(printed) = 2
    /\ printed[1].rule_id = "SEC-164"
    /\ printed[2].rule_id = "SEC-165"

(***************************************************************************)
(* SpecFields: one block of up to five assignments, one for each key, in   *)
(* one of several orders.  A field is the line that assigns a key and the  *)
(* value the line writes; an absent field has no line and the value the    *)
(* record has by default                                                   *)
(***************************************************************************)
Field(line, value) == [line |-> line, value |-> value]

IdFields == {Field(Assign(KeyId, Quoted(<<"a">>)), "a")}

PlainDescription == Field(Assign(KeyDescription, Quoted(<<"d">>)), "d")

DescriptionFields ==
    {PlainDescription,
     Field(Assign(KeyDescription, Quoted(KeyEntropy \o <<" ", "=", " ", "9">>)),
           "entropy = 9")}

RegexFields ==
    {Field(Assign(KeyRegex, TripleSingleQuoted(FooQuoteBar)), "foo\"bar"),
     Field(Assign(KeyRegex, TripleDoubleQuoted(<<"x">>)), "x"),
     Field(Assign(KeyRegex, Quoted(<<"y">>)), "y"),
     Field(Assign(KeyRegex,
                  TripleSingleQuoted(KeyId \o <<" ", "=", " ">> \o Quoted(<<"z">>))),
           "id = \"z\"")}

KeywordsABC ==
    Field(Assign(KeyKeywords,
                 <<"[">> \o Quoted(<<"a">>) \o <<",", " ">> \o Quoted(<<"b">>)
                 \o <<",", " ">> \o Quoted(<<"c">>) \o <<"]">>),
          <<"a", "b", "c">>)

KeywordsEmptyBracket == Field(Assign(KeyKeywords, <<"[", "]">>), <<>>)

KeywordsEmptyString ==
    Field(Assign(KeyKeywords,
                 <<"[">> \o Quoted(<<>>) \o <<",", " ">> \o Quoted(<<"a">>)
                 \o <<"]">>),
          <<"", "a">>)

KeywordsFields == {KeywordsABC, KeywordsEmptyBracket, KeywordsEmptyString}

EntropyParsable ==
    {Field(Assign(KeyEntropy, <<"4", ".", "5">>), FourPointFive),
     Field(Assign(KeyEntropy, <<"6", ".", "0">>), [mant |-> 6, frac |-> 0])}

\* more than one decimal point: not a numeric literal
EntropyUnparsable == Field(Assign(KeyEntropy, <<"1", ".", "2", ".", "3">>), Zero)

EntropyFields == EntropyParsable \cup {EntropyUnparsable}

Absent(value) == Field(<<>>, value)

Orders == {<<1, 2, 3, 4, 5>>, <<5, 4, 3, 2, 1>>, <<3, 1, 2, 4, 5>>}

\* the block after a delimiter that holds the lines in the order o
BlockOf(lines, o) ==
    Delimiter \o <<NL>> \o Flatten([n \in 1..Len(o) |-> lines[o[n]]])

InitFields ==
    \E i \in IdFields \cup {Absent("")},
       d \in DescriptionFields \cup {Absent("")},
       g \in RegexFields \cup {Absent("")},
       w \in KeywordsFields \cup {Absent(<<>>)},
       e \in EntropyFields \cup {Absent(Zero)},
       o \in Orders :
        StartState(BlockOf(<<i.line, d.line, g.line, w.line, e.line>>, o))

SpecFields == InitFields /\ [][Next]_vars

\* the line is a line of the text b
HasLine(b, line) == Holds(b, <<NL>> \o line)

\* the key stands in b at the start of a line or nowhere
OnlyAtLineStart(b, key) ==
    \A p \in 1..Len(b) : HasAt(b, p, key) => (p > 1 /\ b[p - 1] = NL)

\* the record with the values the five fields write
RecordOf(i, d, g, w, e) ==
    [id |-> i.value, description |-> d.value, regex |-> g.value,
     keywords |-> w.value, entropy |-> e.value]

(***************************************************************************)
(* C4: a block with a line for each of id, description, regex (in any of   *)
(* the three quotings), keywords and entropy, every value well formed,     *)
(* gives exactly one record, and its five fields are the values written    *)
(***************************************************************************)
C4_FieldsEqualLiterals ==
    Returned =>
        LET b == parts[FirstBlock]
        IN \A i \in IdFields, d \in DescriptionFields, g \in RegexFields,
              e \in EntropyParsable :
               (/\ HasLine(b, i.line) /\ HasLine(b, d.line) /\ HasLine(b, g.line)
                /\ HasLine(b, KeywordsABC.line) /\ HasLine(b, e.line))
                   => rules = <<RecordOf(i, d, g, KeywordsABC, e)>>

\* the block has an id line and a regex line, so it gives a record
HasIdAndRegex(b) ==
    /\ \E i \in IdFields : HasLine(b, i.line)
    /\ \E g \in RegexFields : HasLine(b, g.line)

(***************************************************************************)
(* C6: the keywords of the record are the double-quoted strings of the     *)
(* bracket after keywords =, each of them, in order; with an empty bracket *)
(* or no keywords key they are the empty sequence; the record is there in  *)
(* each case                                                               *)
(***************************************************************************)
C6_KeywordsAreTheQuotedStrings ==
    (Returned /\ HasIdAndRegex(parts[FirstBlock])) =>
        LET b == parts[FirstBlock]
        IN /\ \A w \in KeywordsFields :
                  HasLine(b, w.line)
                      => Len(rules) = 1 /\ rules[1].keywords = w.value
           /\ ~Holds(b, KeyKeywords)
                  => Len(rules) = 1 /\ rules[1].keywords = <<>>

(***************************************************************************)
(* C7: the entropy of the record is the value of the numeric literal       *)
(* after entropy =, and 0.0 when there is no entropy key or its value is   *)
(* not a numeric literal; the record is there in each case, so             *)
(* parse_gitleaks has returned.  Blocks where "entropy" also stands inside *)
(* a value are left out                                                    *)
(***************************************************************************)
C7_EntropyIsLiteralOrZero ==
    (/\ Terminated
     /\ HasIdAndRegex(parts[FirstBlock])
     /\ OnlyAtLineStart(parts[FirstBlock], KeyEntropy)) =>
        LET b == parts[FirstBlock]
        IN /\ \A e \in EntropyFields :
                  HasLine(b, e.line)
                      => Returned /\ Len(rules) = 1 /\ rules[1].entropy = e.value
           /\ ~Holds(b, KeyEntropy)
                  => Returned /\ Len(rules) = 1 /\ rules[1].entropy = Zero

\* the list returned for the block that holds the lines in the order they
\* are given
Only(lines) == Parse(Delimiter \o <<NL>> \o Flatten(lines)).rules

(***************************************************************************)
(* C9: for a block of one line for each of the five keys, the record is    *)
(* the same in every order of the lines, and the value of a field is the   *)
(* one the block with the id line, the regex line and the line of that     *)
(* field gives.  The description is the plain one, so that no value but    *)
(* that of regex holds text that looks like an assignment                  *)
(***************************************************************************)
C9_FieldsAreIndependent ==
    Returned =>
        LET b == parts[FirstBlock]
        IN \A i \in IdFields, d \in {PlainDescription}, g \in RegexFields,
              w \in KeywordsFields, e \in EntropyFields :
               (/\ HasLine(b, i.line) /\ HasLine(b, d.line) /\ HasLine(b, g.line)
                /\ HasLine(b, w.line) /\ HasLine(b, e.line))
                   => /\ rules = Only(<<i.line, d.line, g.line, w.line, e.line>>)
                      /\ Len(rules) = 1
                      /\ rules[1].id = Only(<<i.line, g.line>>)[1].id
                      /\ rules[1].regex = Only(<<i.line, g.line>>)[1].regex
                      /\ rules[1].description
                             = Only(<<i.line, g.line, d.line>>)[1].description
                      /\ rules[1].keywords
                             = Only(<<i.line, g.line, w.line>>)[1].keywords
                      /\ rules[1].entropy
                             = Only(<<i.line, g.line, e.line>>)[1].entropy

====
